---- MODULE Spec2Model ----
(***************************************************************************)
(* Model of helpers/resources-update.py: list_resources walks a directory  *)
(* tree, keeps the files whose last '.'-segment is an allowed extension,   *)
(* and writes the list of their paths as JSON to an output file.           *)
(*                                                                         *)
(* Strings are sequences of one-character strings, so that split, replace, *)
(* slicing and JSON quoting are computed character by character.  A path   *)
(* in the file system is a sequence of names below the working directory.  *)
(***************************************************************************)
EXTENDS Integers, Sequences, FiniteSets

(* ---------------------------- bounds ----------------------------------- *)
\* number of files put in the tree before the first run
MaxFiles == 2
\* number of successive invocations of the script
MaxRuns == 2

(* ------------------------- names used in trees ------------------------- *)
jpg == <<"j", "p", "g">>
png == <<"p", "n", "g">>
gif == <<"g", "i", "f">>
mp3 == <<"m", "p", "3">>
wav == <<"w", "a", "v">>
ogg == <<"o", "g", "g">>
json == <<"j", "s", "o", "n">>
Empty == <<>>

Dot == <<".">>
DirA == <<"a">>
\* a directory whose own name ends in an allowed extension
DirBpng == <<"b", ".", "p", "n", "g">>
\* a POSIX directory name holding a backslash: 'a\b.png'
DirABpng == <<"a", "\\", "b", ".", "p", "n", "g">>

CatJpg == <<"c", ".", "j", "p", "g">>
\* several dots, last segment differs from an allowed one only in case
MultiDot == <<"n", ".", "j", "p", "g", ".", "J", "P", "G">>
\* no '.' at all; the whole name spells an allowed extension
BareJpg == jpg
\* trailing '.', the last segment is the empty string
TrailDot == <<"c", ".">>
\* a POSIX file name holding a backslash and a double quote: '\".ogg'
Quoted == <<"\\", "\"", ".", "o", "g", "g">>

\* os.scandir order of the entries of a directory (arbitrary but fixed)
NameOrder ==
  <<CatJpg, MultiDot, BareJpg, TrailDot, Quoted,
    <<"o", ".", "j", "p", "g">>,
    <<"r", "e", "s", "o", "u", "r", "c", "e", "s", ".", "j", "s", "o", "n">>,
    DirA, DirBpng, DirABpng>>

DirUniverse(pf) ==
  {<<>>, <<DirA>>, <<DirA, DirBpng>>} \cup (IF pf = "posix" THEN {<<DirABpng>>} ELSE {})

(* --------------------- the entry point's arguments --------------------- *)
HardStart == Dot
HardOutput == <<"r", "e", "s", "o", "u", "r", "c", "e", "s", ".", "j", "s", "o", "n">>
HardAllowed == <<jpg, png, gif, mp3, wav, ogg>>

StartChoices == {HardStart, <<"a">>, <<"m">>}
OutputChoices ==
  {HardOutput, <<"a", "/", "o", ".", "j", "p", "g">>, <<"m", "/", "o", ".", "j", "p", "g">>}
AllowedChoices == {HardAllowed, <<jpg, json, Empty>>}

\* content of a file nobody has listed yet
Old == <<"o", "l", "d">>

VARIABLES
  platform,     \* "posix" or "nt": which os.path the interpreter uses
  dirs,         \* the directories that exist (paths below the working directory)
  files,        \* regular files: path |-> content
  start_from, output_file, allowed_ext,   \* arguments of list_resources
  pc,           \* position inside list_resources
  crashed,      \* the process was killed at pc
  arr,          \* the local list being built
  buf,          \* text handed to res_file.write and not yet on disk
  runs,         \* invocations started so far
  src,          \* history: the file each element of arr was made from
  pre,          \* history: state of output_file when the run began
  existed,      \* history: output_file was a file when the tree was walked
  prevOut,      \* history: state of output_file after the preceding run, if it completed
  prevExisted   \* history: 'existed' of the preceding completed run

vars == <<platform, dirs, files, start_from, output_file, allowed_ext, pc,
          crashed, arr, buf, runs, src, pre, existed, prevOut, prevExisted>>

(* --------------------------- string helpers ---------------------------- *)
Range(s) == {s[i] : i \in DOMAIN s}

Min(S) == CHOOSE x \in S : \A y \in S : x <= y
Max(S) == CHOOSE x \in S : \A y \in S : x >= y

\* s[2:]
Drop2(s) == SubSeq(s, 3, Len(s))

\* s.replace('\\', '/')
Replace(s) == [i \in 1..Len(s) |-> IF s[i] = "\\" THEN "/" ELSE s[i]]

DotIdx(s) == {i \in 1..Len(s) : s[i] = "."}

\* name.split('.')[0]: the first segment instead of the last
SplitFirst(name) ==
  IF DotIdx(name) = {} THEN name ELSE SubSeq(name, 1, Min(DotIdx(name)) - 1)

\* name.split('.')[-1]
SplitLast(name) ==
  IF DotIdx(name) = {} THEN name ELSE SubSeq(name, Max(DotIdx(name)) + 1, Len(name))

\* x in list
In(x, list) == \E i \in DOMAIN list : list[i] = x

RECURSIVE Split(_, _)
\* the components of s between the separator characters seps
Split(s, seps) ==
  LET idx == {i \in 1..Len(s) : s[i] \in seps}
  IN IF idx = {} THEN <<s>>
     ELSE <<SubSeq(s, 1, Min(idx) - 1)>> \o Split(SubSeq(s, Min(idx) + 1, Len(s)), seps)

RECURSIVE Flatten(_)
Flatten(ss) == IF ss = <<>> THEN <<>> ELSE Head(ss) \o Flatten(Tail(ss))

(* ------------------------------ os.path -------------------------------- *)
Sep(pf) == IF pf = "nt" THEN "\\" ELSE "/"
Seps(pf) == IF pf = "nt" THEN {"\\", "/"} ELSE {"/"}

\* os.path.join(root, name)
Join(pf, root, name) ==
  IF root # <<>> /\ root[Len(root)] \in Seps(pf) THEN root \o name
  ELSE root \o <<Sep(pf)>> \o name

\* the file-system object a relative path string names
Resolve(pf, s) == SelectSeq(Split(s, Seps(pf)), LAMBDA c : c # Dot /\ c # <<>>)

StartDir == Resolve(platform, start_from)
OutPath == Resolve(platform, output_file)
OutName == OutPath[Len(OutPath)]
Parent(p) == SubSeq(p, 1, Len(p) - 1)
IsPrefix(p, q) == Len(p) <= Len(q) /\ SubSeq(q, 1, Len(p)) = p

(* ------------------------------ os.walk -------------------------------- *)
RECURSIVE Walk(_, _, _, _, _)
RECURSIVE WalkSubs(_, _, _, _, _, _)
\* a listing of top alone, as os.listdir-style code without recursion gives
WalkShallow(pf, top, d, ds, fs) ==
  IF d \notin ds THEN <<>>
  ELSE LET names == SelectSeq(NameOrder, LAMBDA n : Append(d, n) \in fs)
       IN [i \in 1..Len(names) |-> [root |-> top, dir |-> d, name |-> names[i]]]

\* a walk whose inner loop runs over dirs + files
WalkDirsToo(pf, top, d, ds, fs) ==
  IF d \notin ds THEN <<>>
  ELSE LET names == SelectSeq(NameOrder, LAMBDA n : Append(d, n) \in fs \cup ds)
           subs == SelectSeq(NameOrder, LAMBDA n : Append(d, n) \in ds)
           here == [i \in 1..Len(names) |-> [root |-> top, dir |-> d, name |-> names[i]]]
       IN here \o WalkSubs(pf, top, d, ds, fs, subs)

\* the (root, name) pairs of "for root, dirs, files in os.walk(top): for name
\* in files", top-down; d is the directory that the string top names.  A top
\* that cannot be listed yields nothing (onerror is None).
Walk(pf, top, d, ds, fs) ==
  IF d \notin ds THEN <<>>
  ELSE LET names == SelectSeq(NameOrder, LAMBDA n : Append(d, n) \in fs)
           subs == SelectSeq(NameOrder, LAMBDA n : Append(d, n) \in ds)
           here == [i \in 1..Len(names) |-> [root |-> top, dir |-> d, name |-> names[i]]]
       IN here \o WalkSubs(pf, top, d, ds, fs, subs)

WalkSubs(pf, top, d, ds, fs, subs) ==
  IF subs = <<>> THEN <<>>
  ELSE Walk(pf, Join(pf, top, Head(subs)), Append(d, Head(subs)), ds, fs)
       \o WalkSubs(pf, top, d, ds, fs, Tail(subs))

(* --------------------------- list_resources ---------------------------- *)
\* if name.split('.')[-1] in allowed_ext
Matches(name, allowed) == In(SplitLast(name), allowed)

\* root.replace('\\', '/')[2:] + '/' + name
Entry(root, name) == Drop2(Replace(root)) \o <<"/">> \o name

\* the iterations of the loop that reach arr.append
Kept(pf, top, ds, fs, allowed) ==
  SelectSeq(Walk(pf, top, Resolve(pf, top), ds, fs), LAMBDA v : Matches(v.name, allowed))

(* ----------------------------- json.dumps ------------------------------ *)
EscapeChar(c) ==
  IF c = "\"" THEN <<"\\", "\"">> ELSE IF c = "\\" THEN <<"\\", "\\">> ELSE <<c>>

JsonString(s) == <<"\"">> \o Flatten([i \in 1..Len(s) |-> EscapeChar(s[i])]) \o <<"\"">>

\* json.dumps(a) for a list of strings: items separated by ', '
Dumps(a) ==
  <<"[">>
  \o Flatten([i \in 1..Len(a) |-> (IF i = 1 THEN <<>> ELSE <<",", " ">>) \o JsonString(a[i])])
  \o <<"]">>

(* ------------------------------ the disk ------------------------------- *)
\* what output_file holds: {} when it does not exist, else {its content}
OutState == IF OutPath \in DOMAIN files THEN {files[OutPath]} ELSE {}

\* open(output_file, 'w') succeeds
CanOpen == OutPath # <<>> /\ OutPath \notin dirs /\ Parent(OutPath) \in dirs

\* the file system after output_file has been given content c
WithOutput(c) == [p \in DOMAIN files \cup {OutPath} |-> IF p = OutPath THEN c ELSE files[p]]

(* ------------------------------ Init ----------------------------------- *)
RECURSIVE UpTo(_, _)
\* the subsets of U with at most k elements
UpTo(U, k) ==
  IF k = 0 THEN {{}}
  ELSE LET P == UpTo(U, k - 1) IN P \cup {s \cup {x} : s \in P, x \in U}

\* the files a tree may hold: in the root, one and two directories deep
FileUniverse(pf) ==
  {<<CatJpg>>, <<BareJpg>>, <<DirA, CatJpg>>, <<DirA, MultiDot>>, <<DirA, TrailDot>>,
   <<DirA, BareJpg>>, <<DirA, DirBpng, CatJpg>>, <<DirA, DirBpng, MultiDot>>}
  \cup (IF pf = "posix" THEN {<<DirABpng, CatJpg>>, <<DirA, Quoted>>} ELSE {})

Init ==
  /\ platform \in {"posix", "nt"}
  /\ dirs = DirUniverse(platform)
  /\ start_from \in StartChoices
  /\ output_file \in OutputChoices
  /\ allowed_ext \in AllowedChoices
  /\ \E S \in UpTo(FileUniverse(platform), MaxFiles), outThere \in BOOLEAN :
       LET T == IF outThere /\ Parent(Resolve(platform, output_file)) \in dirs
                THEN S \cup {Resolve(platform, output_file)} ELSE S
       IN files = [p \in T |-> Old]
  /\ pc = "idle"
  /\ crashed = FALSE
  /\ arr = <<>>
  /\ buf = <<>>
  /\ runs = 0
  /\ src = <<>>
  /\ pre = {}
  /\ existed = FALSE
  /\ prevOut = {}
  /\ prevExisted = FALSE

(* ----------------------------- actions --------------------------------- *)
\* the open of line 16 moved to the top of the function
BeginOpens ==
  /\ ~crashed
  /\ pc \in {"idle", "done", "failed"}
  /\ runs < MaxRuns
  /\ runs' = runs + 1
  /\ pc' = "walk"
  /\ arr' = <<>>
  /\ src' = <<>>
  /\ buf' = <<>>
  /\ pre' = OutState
  /\ prevOut' = IF pc = "done" THEN OutState ELSE {}
  /\ prevExisted' = (pc = "done" /\ existed)
  /\ files' = IF CanOpen THEN WithOutput(<<>>) ELSE files
  /\ UNCHANGED <<platform, dirs, start_from, output_file, allowed_ext, crashed, existed>>

\* the script is invoked; line 10: arr = []
Begin ==
  /\ ~crashed
  /\ pc \in {"idle", "done", "failed"}
  /\ runs < MaxRuns
  /\ runs' = runs + 1
  /\ pc' = "walk"
  /\ arr' = <<>>
  /\ src' = <<>>
  /\ buf' = <<>>
  /\ pre' = OutState
  /\ prevOut' = IF pc = "done" THEN OutState ELSE {}
  /\ prevExisted' = (pc = "done" /\ existed)
  /\ UNCHANGED <<platform, dirs, files, start_from, output_file, allowed_ext, crashed, existed>>

\* lines 11-14: the two nested loops
Traverse ==
  /\ ~crashed
  /\ pc = "walk"
  /\ LET kept == Kept(platform, start_from, dirs, DOMAIN files, allowed_ext)
     IN /\ arr' = arr \o [i \in 1..Len(kept) |-> Entry(kept[i].root, kept[i].name)]
        /\ src' = src \o [i \in 1..Len(kept) |-> Append(kept[i].dir, kept[i].name)]
  /\ existed' = (OutPath \in DOMAIN files)
  /\ pc' = "walked"
  /\ UNCHANGED <<platform, dirs, files, start_from, output_file, allowed_ext, crashed,
                 buf, runs, pre, prevOut, prevExisted>>

\* open(output_file, 'a'): an existing file keeps its content
OpenAppend ==
  /\ ~crashed
  /\ pc = "walked"
  /\ CanOpen
  /\ files' = WithOutput(IF OutPath \in DOMAIN files THEN files[OutPath] ELSE <<>>)
  /\ buf' = <<>>
  /\ pc' = "opened"
  /\ UNCHANGED <<platform, dirs, start_from, output_file, allowed_ext, crashed, arr,
                 runs, src, pre, existed, prevOut, prevExisted>>

\* line 16: open(output_file, 'w') creates or truncates the file
Open ==
  /\ ~crashed
  /\ pc = "walked"
  /\ CanOpen
  /\ files' = WithOutput(<<>>)
  /\ buf' = <<>>
  /\ pc' = "opened"
  /\ UNCHANGED <<platform, dirs, start_from, output_file, allowed_ext, crashed, arr,
                 runs, src, pre, existed, prevOut, prevExisted>>

\* line 16 raising: the exception leaves list_resources
OpenFails ==
  /\ ~crashed
  /\ pc = "walked"
  /\ ~CanOpen
  /\ pc' = "failed"
  /\ UNCHANGED <<platform, dirs, files, start_from, output_file, allowed_ext, crashed,
                 arr, buf, runs, src, pre, existed, prevOut, prevExisted>>

\* str(a) of a list of plain strings: single quotes
PyStr(a) ==
  <<"[">>
  \o Flatten([i \in 1..Len(a) |->
                (IF i = 1 THEN <<>> ELSE <<",", " ">>) \o <<"'">> \o a[i] \o <<"'">>])
  \o <<"]">>

\* res_file.write(str(arr))
WriteStr ==
  /\ ~crashed
  /\ pc = "opened"
  /\ buf' = buf \o PyStr(arr)
  /\ pc' = "written"
  /\ UNCHANGED <<platform, dirs, files, start_from, output_file, allowed_ext, crashed,
                 arr, runs, src, pre, existed, prevOut, prevExisted>>

\* line 17: res_file.write(json.dumps(arr)) fills the file object's buffer
Write ==
  /\ ~crashed
  /\ pc = "opened"
  /\ buf' = buf \o Dumps(arr)
  /\ pc' = "written"
  /\ UNCHANGED <<platform, dirs, files, start_from, output_file, allowed_ext, crashed,
                 arr, runs, src, pre, existed, prevOut, prevExisted>>

\* line 18: res_file.close() puts the buffer at the file position
Close ==
  /\ ~crashed
  /\ pc = "written"
  /\ files' = WithOutput(files[OutPath] \o buf)
  /\ buf' = <<>>
  /\ pc' = "done"
  /\ UNCHANGED <<platform, dirs, start_from, output_file, allowed_ext, crashed, arr,
                 runs, src, pre, existed, prevOut, prevExisted>>

\* the process dies inside list_resources; of a buffer being flushed some
\* prefix has reached the disk
Crash ==
  /\ ~crashed
  /\ pc \in {"walk", "walked", "opened", "written"}
  /\ crashed' = TRUE
  /\ IF pc = "written"
     THEN \E k \in 0..Len(buf) : files' = WithOutput(files[OutPath] \o SubSeq(buf, 1, k))
     ELSE files' = files
  /\ UNCHANGED <<platform, dirs, start_from, output_file, allowed_ext, pc, arr, buf,
                 runs, src, pre, existed, prevOut, prevExisted>>

Next == Begin \/ Traverse \/ Open \/ OpenFails \/ Write \/ Close \/ Crash

Spec == Init /\ [][Next]_vars

(* ------------------------- notions of the claims ----------------------- *)
\* the regular files of the tree under start_from
TreeFiles ==
  IF StartDir \in dirs THEN {p \in DOMAIN files : IsPrefix(StartDir, p)} ELSE {}

\* the directories of the tree strictly under start_from
TreeDirs ==
  IF StartDir \in dirs THEN {d \in dirs : IsPrefix(StartDir, d) /\ d # StartDir} ELSE {}

NameOf(p) == p[Len(p)]

\* p's path relative to start_from, written with '/'
RelStr(p) ==
  LET r == SubSeq(p, Len(StartDir) + 1, Len(p))
  IN Flatten([i \in 1..Len(r) |-> (IF i = 1 THEN <<>> ELSE <<"/">>) \o r[i]])

\* the extension of a name: the text after its final '.', the whole name if
\* it has none
Ext(name) ==
  IF \A i \in 1..Len(name) : name[i] # "." THEN name
  ELSE LET last == CHOOSE i \in 1..Len(name) :
                     name[i] = "." /\ \A j \in (i + 1)..Len(name) : name[j] # "."
       IN SubSeq(name, last + 1, Len(name))

\* the traversal of the current run is over and the tree is as it was walked
Walked == pc = "walked" /\ ~crashed

\* output_file lies in the tree under start_from
OutUnder == StartDir \in dirs /\ OutPath # <<>> /\ IsPrefix(StartDir, Parent(OutPath))

\* a JSON array without any whitespace
CompactJson(a) ==
  <<"[">>
  \o Flatten([i \in 1..Len(a) |-> (IF i = 1 THEN <<>> ELSE <<",">>) \o JsonString(a[i])])
  \o <<"]">>

HardCoded ==
  start_from = HardStart /\ output_file = HardOutput /\ allowed_ext = HardAllowed

(* ------------------------------- C1 ------------------------------------ *)
\* C1: for every regular file f of the tree under start_from, f's path
\* relative to the root is an entry of the manifest if and only if the text
\* after the final '.' of f's name is a member of allowed_ext.
C1_FilterCorrectness ==
  Walked => \A f \in TreeFiles :
              (RelStr(f) \in Range(arr)) <=> In(Ext(NameOf(f)), allowed_ext)

C3_EntryFormat ==
  (Walked /\ start_from = Dot) =>
    \A i \in DOMAIN arr : arr[i] = RelStr(src[i]) /\ arr[i][1] # "/"

(* ------------------------------- C4 ------------------------------------ *)
\* C4: if start_from does not exist, list_resources ends with an error and
\* never opens output_file, which stays exactly as it was before the call.
C4_FailFast ==
  (StartDir \notin dirs /\ pc # "idle") =>
    /\ pc \notin {"opened", "written", "done"}
    /\ OutState = pre

C6_ExtensionlessExcluded ==
  (Walked /\ ~In(Empty, allowed_ext)) =>
    \A i \in DOMAIN src : DotIdx(NameOf(src[i])) # {}

(* ------------------------------- C7 ------------------------------------ *)
\* C7 (as claimed): a run that directly follows a completed run with the
\* same arguments leaves output_file with the content the first one left,
\* for every output_file and allowed_ext.
C7_Repeatable ==
  (pc = "done" /\ prevOut # {}) => OutState = prevOut

\* C7 (amended): the same, provided output_file was already a file when the
\* first of the two runs walked the tree, or does not lie under start_from,
\* or the last '.'-segment of its name is not in allowed_ext.
C7_RepeatableIfSettled ==
  (pc = "done" /\ prevOut # {}
     /\ (prevExisted \/ ~OutUnder \/ ~In(Ext(OutName), allowed_ext)))
    => OutState = prevOut

\* the second of two completed runs, with output_file inside the tree and
\* listed by both
C7_Witness ==
  /\ pc = "done" /\ prevOut # {} /\ prevExisted
  /\ OutUnder /\ OutPath \in Range(src) /\ Len(arr) >= 2

(* ------------------------------- C8 ------------------------------------ *)
\* C8: no manifest entry is made from a directory, also when the directory's
\* name ends in '.' and an allowed extension; every entry comes from a
\* regular file of the tree.
C8_NoDirectories ==
  Walked => \A i \in DOMAIN src : src[i] \notin dirs /\ src[i] \in TreeFiles

\* the tree holds a directory named like a resource, and a file inside that
\* directory has been listed
C8_Witness ==
  /\ Walked
  /\ \E d \in TreeDirs : In(Ext(NameOf(d)), allowed_ext)
                          /\ \E i \in DOMAIN src : Parent(src[i]) = d

(* ------------------------------- C9 ------------------------------------ *)
\* C9: output_file is untouched until the traversal has finished, also when
\* the run dies during the traversal; a run that dies between open and the
\* end of close leaves output_file holding a prefix of the new manifest text.
C9_WriteOrdering ==
  /\ pc \in {"walk", "walked"} => OutState = pre
  /\ (crashed /\ pc \in {"opened", "written"})
       => \E c \in OutState : IsPrefix(c, Dumps(arr))

\* a crash after which output_file holds neither what it held before nor the
\* whole new manifest
C9_Witness ==
  /\ crashed /\ pc = "written"
  /\ pre = {Old}
  /\ OutState # pre
  /\ OutState # {Dumps(arr)}

(* ------------------------------- C10 ----------------------------------- *)
\* C10: the manifest a run writes has an entry made from output_file exactly
\* when output_file lies under start_from, was a file when the tree was
\* walked, and has an extension in allowed_ext; with the hard-coded
\* arguments that never happens.
C10_SelfListing ==
  (pc = "done") =>
    /\ (OutPath \in Range(src))
         <=> (OutUnder /\ existed /\ In(Ext(OutName), allowed_ext))
    /\ HardCoded => OutPath \notin Range(src)

\* a second run that lists the output file the first run created
C10_Witness ==
  /\ pc = "done" /\ runs = 2 /\ pre # {} /\ prevOut # {} /\ ~prevExisted
  /\ OutPath \in Range(src)

====
